---------------------------- MODULE Spec2Model ----------------------------
(***************************************************************************)
(* Model of FrappeDB (src/src/db/index.ts): the seven database operations  *)
(* getDoc, getDocList, createDoc, updateDoc, deleteDoc, getCount and       *)
(* getLastDoc, each an axios request followed by a .then/.catch pair.      *)
(*                                                                         *)
(* JavaScript values are tagged records [t |-> type, v |-> payload]; the   *)
(* operators below give the language constructs the source uses            *)
(* (??, truthiness, spread, template literals, JSON.stringify, default     *)
(* parameters, property access that throws on null/undefined).             *)
(***************************************************************************)
EXTENDS Integers, Sequences, FiniteSets, TLC

VARIABLES
    pc,        \* "idle" | "pending" | "settled": position of the one call
    call,      \* the operation called by the user and its arguments
    inflight,  \* the method of FrappeDB whose axios request is in flight
    wire,      \* log of the transport: requests issued, responses received
    outcome,   \* state and value of the promise returned to the caller
    settles    \* number of times the returned promise has been settled

vars == <<pc, call, inflight, wire, outcome, settles>>

---------------------------------------------------------------------------
(* Bounds *)

\* longest list a getDocList response carries
MaxListLen == 2

\* largest number of keys present in a GetDocListArgs / GetLastDocArgs
MaxArgKeys == 2

---------------------------------------------------------------------------
(* JavaScript values *)

Undefined == [t |-> "undefined", v |-> ""]
Null      == [t |-> "null", v |-> ""]
Str(s)    == [t |-> "string", v |-> s]
Num(n)    == [t |-> "number", v |-> n]
Bool(b)   == [t |-> "boolean", v |-> b]
Arr(a)    == [t |-> "array", v |-> a]
Obj(f)    == [t |-> "object", v |-> f]

\* the TypeError raised by a property read on undefined or null
TypeError == [t |-> "TypeError", v |-> "Cannot read properties of undefined"]

EmptyObject == Obj([k \in {} |-> Undefined])

\* completion of a callback: a returned value or a thrown one
Return(x) == [c |-> "return", v |-> x]
Throw(x)  == [c |-> "throw", v |-> x]

\* x === undefined || x === null
Nullish(x) == x.t \in {"undefined", "null"}

\* a ?? b
Coalesce(a, b) == IF Nullish(a) THEN b ELSE a

\* ToBoolean(x), as used by `if (x)` and `x ? a : b`
Truthy(x) ==
    CASE x.t \in {"undefined", "null"} -> FALSE
      [] x.t = "string"  -> x.v # ""
      [] x.t = "number"  -> x.v # 0
      [] x.t = "boolean" -> x.v
      [] OTHER           -> TRUE

\* x.k for a value x that is neither undefined nor null
Get(x, k) ==
    IF x.t = "object" /\ k \in DOMAIN x.v THEN x.v[k] ELSE Undefined

\* { ...a, ...b } for objects; spreading undefined or null adds nothing
OwnKeys(x) == IF x.t = "object" THEN DOMAIN x.v ELSE {}

Spread(a, b) ==
    Obj([k \in OwnKeys(a) \cup OwnKeys(b) |->
            IF k \in OwnKeys(b) THEN b.v[k] ELSE a.v[k]])

\* a parameter with a default value: the default applies to undefined only
Default(x, d) == IF x.t = "undefined" THEN d ELSE x

Digit(n) == CASE n = 0 -> "0" [] n = 1 -> "1" [] n = 2 -> "2" [] n = 3 -> "3"
              [] n = 4 -> "4" [] n = 5 -> "5" [] n = 6 -> "6" [] n = 7 -> "7"
              [] n = 8 -> "8" [] n = 9 -> "9"

RECURSIVE Decimal(_)
Decimal(n) == IF n < 10 THEN Digit(n) ELSE Decimal(n \div 10) \o Digit(n % 10)

\* String(x), the conversion a template literal `${x}` applies
String(x) ==
    CASE x.t = "undefined" -> "undefined"
      [] x.t = "null"      -> "null"
      [] x.t = "string"    -> x.v
      [] x.t = "number"    -> IF x.v < 0 THEN "-" \o Decimal(0 - x.v) ELSE Decimal(x.v)
      [] x.t = "boolean"   -> IF x.v THEN "true" ELSE "false"
      [] OTHER             -> "[object Object]"

Quote == "\""

RECURSIVE JSONStringify(_)
RECURSIVE JSONItems(_)
\* the comma-separated JSON texts of the elements of a sequence
JSONItems(s) ==
    IF Len(s) = 0 THEN ""
    ELSE IF Len(s) = 1 THEN JSONStringify(s[1])
    ELSE JSONStringify(s[1]) \o "," \o JSONItems(Tail(s))

\* JSON.stringify(x) for strings, numbers, booleans, null and arrays
JSONStringify(x) ==
    CASE x.t = "string"  -> Quote \o x.v \o Quote
      [] x.t = "number"  -> String(x)
      [] x.t = "boolean" -> String(x)
      [] x.t = "array"   -> "[" \o JSONItems(x.v) \o "]"
      [] OTHER           -> "null"

---------------------------------------------------------------------------
(* The transport: what axios is handed and what it hands back *)

Request(method, url, params, data) ==
    [e |-> "request", method |-> method, url |-> url,
     params |-> params, data |-> data]

IsRequest(x)  == x.e = "request"
IsResponse(x) == x.e = "response"

Requests  == SelectSeq(wire, IsRequest)
Responses == SelectSeq(wire, IsResponse)

---------------------------------------------------------------------------
(* getDoc, lines 43-56 *)

getDoc_request(doctype, docname) ==
    Request("GET",
            "/api/resource/" \o doctype \o "/" \o String(Default(docname, Str(""))),
            Undefined, Undefined)

\* (res) => res.data.data
getDoc_then(res) ==
    LET body == Get(res, "data") IN
    IF Nullish(body) THEN Throw(TypeError) ELSE Return(Get(body, "data"))

getDoc_catch(error) ==
    LET response == Get(error, "response") IN
    IF Nullish(response) THEN Throw(TypeError)
    ELSE LET data == Get(response, "data") IN
         IF Nullish(data) THEN Throw(TypeError)
         ELSE Throw(Spread(data, Obj(
                [httpStatus     |-> Get(response, "status"),
                 httpStatusText |-> Get(response, "statusText"),
                 message        |-> Str("There was an error while fetching the document."),
                 exception      |-> Coalesce(Coalesce(Get(data, "exception"),
                                                      Get(data, "exc_type")), Str(""))])))

---------------------------------------------------------------------------
(* getDocList, lines 64-94 *)

\* orderByString with direction 'desc' when order is omitted
orderByString_defaultDesc(orderBy) ==
    IF Truthy(orderBy)
    THEN String(Get(orderBy, "field")) \o " "
            \o String(Coalesce(Get(orderBy, "order"), Str("desc")))
    ELSE ""

\* orderBy ? `${String(orderBy?.field)} ${orderBy?.order ?? 'asc'}` : ''
orderByString(orderBy) ==
    IF Truthy(orderBy)
    THEN String(Get(orderBy, "field")) \o " "
            \o String(Coalesce(Get(orderBy, "order"), Str("asc")))
    ELSE ""

\* x ? JSON.stringify(x) : undefined
StringifyIfTruthy(x) == IF Truthy(x) THEN Str(JSONStringify(x)) ELSE Undefined

getDocList_params(args) ==
    IF Truthy(args)
    THEN Obj([fields      |-> StringifyIfTruthy(Get(args, "fields")),
              filters     |-> StringifyIfTruthy(Get(args, "filters")),
              or_filters  |-> StringifyIfTruthy(Get(args, "orFilters")),
              order_by    |-> Str(orderByString(Get(args, "orderBy"))),
              group_by    |-> Get(args, "groupBy"),
              limit       |-> Get(args, "limit"),
              limit_start |-> Get(args, "limit_start"),
              as_dict     |-> Default(Get(args, "asDict"), Bool(TRUE))])
    ELSE EmptyObject

getDocList_request(doctype, args) ==
    Request("GET", "/api/resource/" \o doctype, getDocList_params(args), Undefined)

getDocList_then(res) ==
    LET body == Get(res, "data") IN
    IF Nullish(body) THEN Throw(TypeError) ELSE Return(Get(body, "data"))

getDocList_catch(error) ==
    LET response == Get(error, "response") IN
    IF Nullish(response) THEN Throw(TypeError)
    ELSE LET data == Get(response, "data") IN
         IF Nullish(data) THEN Throw(TypeError)
         ELSE Throw(Spread(data, Obj(
                [httpStatus     |-> Get(response, "status"),
                 httpStatusText |-> Get(response, "statusText"),
                 message        |-> Str("There was an error while fetching the documents."),
                 exception      |-> Coalesce(Coalesce(Get(data, "exception"),
                                                      Get(data, "exc_type")), Str(""))])))

---------------------------------------------------------------------------
(* createDoc, lines 101-114 *)

createDoc_request(doctype, value) ==
    Request("POST", "/api/resource/" \o doctype, Undefined, Spread(value, EmptyObject))

createDoc_then(res) ==
    LET body == Get(res, "data") IN
    IF Nullish(body) THEN Throw(TypeError) ELSE Return(Get(body, "data"))

createDoc_catch(error) ==
    LET response == Get(error, "response") IN
    IF Nullish(response) THEN Throw(TypeError)
    ELSE LET data == Get(response, "data") IN
         IF Nullish(data) THEN Throw(TypeError)
         ELSE Throw(Spread(data, Obj(
                [httpStatus     |-> Get(response, "status"),
                 httpStatusText |-> Get(response, "statusText"),
                 message        |-> Coalesce(Get(data, "message"),
                                     Str("There was an error while creating the document.")),
                 exception      |-> Coalesce(Coalesce(Get(data, "exception"),
                                                      Get(data, "exc_type")), Str(""))])))

---------------------------------------------------------------------------
(* updateDoc, lines 122-135 *)

updateDoc_request(doctype, docname, value) ==
    Request("PUT", "/api/resource/" \o doctype \o "/" \o String(docname),
            Undefined, Spread(value, EmptyObject))

updateDoc_then(res) ==
    LET body == Get(res, "data") IN
    IF Nullish(body) THEN Throw(TypeError) ELSE Return(Get(body, "data"))

\* updateDoc's handler returning the error object instead of throwing it
updateDoc_catch_returns(error) ==
    LET response == Get(error, "response") IN
    IF Nullish(response) THEN Return(Undefined)
    ELSE LET data == Get(response, "data") IN
         IF Nullish(data) THEN Return(Undefined)
         ELSE Return(Spread(data, Obj(
                [httpStatus     |-> Get(response, "status"),
                 httpStatusText |-> Get(response, "statusText"),
                 message        |-> Coalesce(Get(data, "message"),
                                     Str("There was an error while updating the document.")),
                 exception      |-> Coalesce(Coalesce(Get(data, "exception"),
                                                      Get(data, "exc_type")), Str(""))])))

updateDoc_catch(error) ==
    LET response == Get(error, "response") IN
    IF Nullish(response) THEN Throw(TypeError)
    ELSE LET data == Get(response, "data") IN
         IF Nullish(data) THEN Throw(TypeError)
         ELSE Throw(Spread(data, Obj(
                [httpStatus     |-> Get(response, "status"),
                 httpStatusText |-> Get(response, "statusText"),
                 message        |-> Coalesce(Get(data, "message"),
                                     Str("There was an error while updating the document.")),
                 exception      |-> Coalesce(Coalesce(Get(data, "exception"),
                                                      Get(data, "exc_type")), Str(""))])))

---------------------------------------------------------------------------
(* deleteDoc, lines 143-156 *)

deleteDoc_request(doctype, docname) ==
    Request("DELETE", "/api/resource/" \o doctype \o "/" \o String(docname),
            Undefined, Undefined)

\* deleteDoc unwrapping data like the other operations
deleteDoc_then_unwraps(res) ==
    LET body == Get(res, "data") IN
    IF Nullish(body) THEN Throw(TypeError) ELSE Return(Get(body, "data"))

\* (res) => res.data
deleteDoc_then(res) == Return(Get(res, "data"))

\* deleteDoc's handler preferring the server's message, as createDoc does
deleteDoc_catch_serverMessage(error) ==
    LET response == Get(error, "response") IN
    IF Nullish(response) THEN Throw(TypeError)
    ELSE LET data == Get(response, "data") IN
         IF Nullish(data) THEN Throw(TypeError)
         ELSE Throw(Spread(data, Obj(
                [httpStatus     |-> Get(response, "status"),
                 httpStatusText |-> Get(response, "statusText"),
                 message        |-> Coalesce(Get(data, "message"),
                                     Str("There was an error while deleting the document.")),
                 exception      |-> Coalesce(Coalesce(Get(data, "exception"),
                                                      Get(data, "exc_type")), Str(""))])))

deleteDoc_catch(error) ==
    LET response == Get(error, "response") IN
    IF Nullish(response) THEN Throw(TypeError)
    ELSE LET data == Get(response, "data") IN
         IF Nullish(data) THEN Throw(TypeError)
         ELSE Throw(Spread(data, Obj(
                [httpStatus     |-> Get(response, "status"),
                 httpStatusText |-> Get(response, "statusText"),
                 message        |-> Str("There was an error while deleting the document."),
                 exception      |-> Coalesce(Coalesce(Get(data, "exception"),
                                                      Get(data, "exc_type")), Str(""))])))

---------------------------------------------------------------------------
(* getCount, lines 166-200 *)

\* getCount's parameters with cache and debug set whether or not they are true
getCount_params_alwaysFlags(doctype, filters, cache, debug) ==
    LET p0 == Obj([doctype |-> Str(doctype), filters |-> Arr(<<>>),
                   cache |-> cache, debug |-> debug])
    IN  IF Truthy(filters)
        THEN Spread(p0, Obj([filters |-> StringifyIfTruthy(filters)]))
        ELSE p0

getCount_params(doctype, filters, cache, debug) ==
    LET p0 == Obj([doctype |-> Str(doctype), filters |-> Arr(<<>>)])
        p1 == IF Truthy(cache) THEN Spread(p0, Obj([cache |-> cache])) ELSE p0
        p2 == IF Truthy(debug) THEN Spread(p1, Obj([debug |-> debug])) ELSE p1
    IN  IF Truthy(filters)
        THEN Spread(p2, Obj([filters |-> StringifyIfTruthy(filters)]))
        ELSE p2

getCount_request(doctype, filters, cache, debug) ==
    Request("GET", "/api/method/frappe.client.get_count",
            getCount_params(doctype, filters,
                            Default(cache, Bool(FALSE)), Default(debug, Bool(FALSE))),
            Undefined)

\* (res) => res.data.message
getCount_then(res) ==
    LET body == Get(res, "data") IN
    IF Nullish(body) THEN Throw(TypeError) ELSE Return(Get(body, "message"))

\* getCount's handler without the fallback from exception to exc_type
getCount_catch_noExcType(error) ==
    LET response == Get(error, "response") IN
    IF Nullish(response) THEN Throw(TypeError)
    ELSE LET data == Get(response, "data") IN
         IF Nullish(data) THEN Throw(TypeError)
         ELSE Throw(Spread(data, Obj(
                [httpStatus     |-> Get(response, "status"),
                 httpStatusText |-> Get(response, "statusText"),
                 message        |-> Str("There was an error while getting the count."),
                 exception      |-> Coalesce(Get(data, "exception"), Str(""))])))

getCount_catch(error) ==
    LET response == Get(error, "response") IN
    IF Nullish(response) THEN Throw(TypeError)
    ELSE LET data == Get(response, "data") IN
         IF Nullish(data) THEN Throw(TypeError)
         ELSE Throw(Spread(data, Obj(
                [httpStatus     |-> Get(response, "status"),
                 httpStatusText |-> Get(response, "statusText"),
                 message        |-> Str("There was an error while getting the count."),
                 exception      |-> Coalesce(Coalesce(Get(data, "exception"),
                                                      Get(data, "exc_type")), Str(""))])))

---------------------------------------------------------------------------
(* getLastDoc, lines 207-227 *)

\* let queryArgs = {orderBy: {...}}; if (args) queryArgs = {...queryArgs, ...args}
getLastDoc_queryArgs(args) ==
    LET queryArgs == Obj([orderBy |-> Obj([field |-> Str("creation"),
                                           order |-> Str("desc")])])
    IN  IF Truthy(args) THEN Spread(queryArgs, args) ELSE queryArgs

\* the forced keys applied before the caller's args instead of after
getLastDoc_listArgs_callerWins(args) ==
    Spread(Obj([limit |-> Num(1), fields |-> Arr(<<Str("name")>>)]),
           getLastDoc_queryArgs(args))

\* { ...queryArgs, limit: 1, fields: ['name'] }
getLastDoc_listArgs(args) ==
    Spread(getLastDoc_queryArgs(args),
           Obj([limit |-> Num(1), fields |-> Arr(<<Str("name")>>)]))

---------------------------------------------------------------------------
(* Inputs: the arguments callers pass and the replies the server gives *)

Doctypes == {"Task", "ToDo"}

\* a document name as the signatures allow it: getDoc(docname: string = ''),
\* updateDoc(docname: string | null), deleteDoc(docname?: string | null)
GetDocNames    == {Undefined, Str(""), Str("T-001")}
UpdateDocNames == {Null, Str("T-001")}
DeleteDocNames == {Undefined, Null, Str("T-001")}

DocValues == {EmptyObject, Obj([subject |-> Str("X")])}

OneFilter == Arr(<<Arr(<<Str("status"), Str("="), Str("Open")>>)>>)

ArgKeys == {"fields", "filters", "orFilters", "orderBy",
            "limit", "limit_start", "groupBy", "asDict"}

ArgValues(k) ==
    CASE k = "fields"      -> {Arr(<<Str("name"), Str("age")>>)}
      [] k = "filters"     -> {OneFilter}
      [] k = "orFilters"   -> {Arr(<<Arr(<<Str("owner"), Str("like"), Str("a%")>>)>>)}
      [] k = "orderBy"     -> {Obj([field |-> Str("age")]),
                               Obj([field |-> Str("age"), order |-> Str("desc")])}
      [] k = "limit"       -> {Num(0), Num(20)}
      [] k = "limit_start" -> {Num(10)}
      [] k = "groupBy"     -> {Str("status")}
      [] k = "asDict"      -> {Bool(TRUE), Bool(FALSE)}

ArgObjects(K) ==
    {Obj(f) : f \in {g \in [K -> UNION {ArgValues(k) : k \in K}] :
                        \A k \in K : g[k] \in ArgValues(k)}}

\* args?: GetDocListArgs, omitted or an object with some of the keys
ListArgs ==
    {Undefined} \cup
    UNION {ArgObjects(K) : K \in {J \in SUBSET ArgKeys : Cardinality(J) <= MaxArgKeys}}

CountFilters == {Undefined, Arr(<<>>), OneFilter}
Flags        == {Undefined, Bool(FALSE), Bool(TRUE)}

Docs      == {Obj([name |-> Str("T-001"), subject |-> Str("X")])}
ListElems == {Obj([name |-> Str("T-001")]), Arr(<<Str("T-002")>>)}
Lists     == UNION {[1..n -> ListElems] : n \in 0..MaxListLen}

\* bodies of 2xx replies
SuccessBodies ==
    {Obj([data |-> d]) : d \in Docs} \cup
    {Obj([data |-> Arr(l)]) : l \in Lists} \cup
    {Obj([message |-> Str("ok")]), Obj([message |-> Num(3)]), Null}

ErrorKeys == {"exception", "exc_type", "message", "httpStatus"}

ErrorValues(k) ==
    CASE k = "exception"  -> {Null, Str(""), Str("frappe.exceptions.ValidationError")}
      [] k = "exc_type"   -> {Str("DoesNotExistError")}
      [] k = "message"    -> {Null, Str("Subject is required")}
      [] k = "httpStatus" -> {Num(0)}

\* bodies of non-2xx replies
ErrorBodies ==
    {Null} \cup
    UNION {{Obj(f) : f \in {g \in [K -> UNION {ErrorValues(k) : k \in K}] :
                               \A k \in K : g[k] \in ErrorValues(k)}}
           : K \in SUBSET ErrorKeys}

Statuses == {[status |-> 404, statusText |-> "NOT FOUND"],
             [status |-> 417, statusText |-> "EXPECTATION FAILED"]}

Response(status, statusText, body) ==
    Obj([status |-> Num(status), statusText |-> Str(statusText), data |-> body])

\* an AxiosError with a response, and one without (the request never got a reply)
ErrorWithResponse(res) == Obj([response |-> res])
ErrorNoResponse        == Obj([code |-> Str("ERR_NETWORK")])

---------------------------------------------------------------------------
(* The state machine *)

Init ==
    /\ pc = "idle"
    /\ call = [op |-> "none"]
    /\ inflight = "none"
    /\ wire = <<>>
    /\ outcome = [state |-> "pending", value |-> Undefined]
    /\ settles = 0

\* the caller invokes a method: its request goes out, its promise is pending
Issue(c, req, method) ==
    /\ pc = "idle"
    /\ call' = c
    /\ wire' = Append(wire, req)
    /\ inflight' = method
    /\ pc' = "pending"
    /\ UNCHANGED <<outcome, settles>>

getDoc(doctype, docname) ==
    Issue([op |-> "getDoc", doctype |-> doctype, docname |-> docname],
          getDoc_request(doctype, docname), "getDoc")

getDocList(doctype, args) ==
    Issue([op |-> "getDocList", doctype |-> doctype, args |-> args],
          getDocList_request(doctype, args), "getDocList")

createDoc(doctype, value) ==
    Issue([op |-> "createDoc", doctype |-> doctype, value |-> value],
          createDoc_request(doctype, value), "createDoc")

updateDoc(doctype, docname, value) ==
    Issue([op |-> "updateDoc", doctype |-> doctype, docname |-> docname, value |-> value],
          updateDoc_request(doctype, docname, value), "updateDoc")

deleteDoc(doctype, docname) ==
    Issue([op |-> "deleteDoc", doctype |-> doctype, docname |-> docname],
          deleteDoc_request(doctype, docname), "deleteDoc")

getCount(doctype, filters, cache, debug) ==
    Issue([op |-> "getCount", doctype |-> doctype, filters |-> filters,
           cache |-> cache, debug |-> debug],
          getCount_request(doctype, filters, cache, debug), "getCount")

\* getLastDoc up to its await: the list request is issued
getLastDoc(doctype, args) ==
    Issue([op |-> "getLastDoc", doctype |-> doctype, args |-> args],
          getDocList_request(doctype, getLastDoc_listArgs(args)), "getDocList")

\* the .then handler of the method whose request was in flight
Then(method, res) ==
    CASE method = "getDoc"     -> getDoc_then(res)
      [] method = "getDocList" -> getDocList_then(res)
      [] method = "createDoc"  -> createDoc_then(res)
      [] method = "updateDoc"  -> updateDoc_then(res)
      [] method = "deleteDoc"  -> deleteDoc_then(res)
      [] method = "getCount"   -> getCount_then(res)

\* its .catch handler
Catch(method, error) ==
    CASE method = "getDoc"     -> getDoc_catch(error)
      [] method = "getDocList" -> getDocList_catch(error)
      [] method = "createDoc"  -> createDoc_catch(error)
      [] method = "updateDoc"  -> updateDoc_catch(error)
      [] method = "deleteDoc"  -> deleteDoc_catch(error)
      [] method = "getCount"   -> getCount_catch(error)

\* the completion of axios(...).then(f).catch(g), given how the transport
\* promise settled: g also receives what f throws
Settle(method, s) ==
    IF s.c = "return"
    THEN LET r == Then(method, s.v) IN
         IF r.c = "throw" THEN Catch(method, r.v) ELSE r
    ELSE Catch(method, s.v)

\* the promise returned to the caller settles with completion c
Finish(w, c) ==
    /\ wire' = w
    /\ outcome' = [state |-> IF c.c = "return" THEN "fulfilled" ELSE "rejected",
                   value |-> c.v]
    /\ settles' = settles + 1
    /\ pc' = "settled"
    /\ inflight' = "none"
    /\ UNCHANGED call

\* getLastDoc going on to getDoc after a failed list request
getLastDoc_resume_ignoresFailure(w, c) ==
    IF c.c = "throw"
    THEN /\ wire' = Append(w, getDoc_request(call.doctype, Undefined))
         /\ inflight' = "getDoc"
         /\ UNCHANGED <<pc, call, outcome, settles>>
    ELSE LET getDocLists == c.v IN
         IF Nullish(getDocLists) THEN Finish(w, Throw(TypeError))
         ELSE IF getDocLists.t = "array" /\ Len(getDocLists.v) > 0
         THEN /\ wire' = Append(w, getDoc_request(call.doctype,
                                                  Get(getDocLists.v[1], "name")))
              /\ inflight' = "getDoc"
              /\ UNCHANGED <<pc, call, outcome, settles>>
         ELSE Finish(w, Return(EmptyObject))

\* getLastDoc reading the name of the last element of the list
getLastDoc_resume_lastElement(w, c) ==
    IF c.c = "throw" THEN Finish(w, c)
    ELSE LET getDocLists == c.v IN
         IF Nullish(getDocLists) THEN Finish(w, Throw(TypeError))
         ELSE IF getDocLists.t = "array" /\ Len(getDocLists.v) > 0
         THEN /\ wire' = Append(w, getDoc_request(call.doctype,
                                Get(getDocLists.v[Len(getDocLists.v)], "name")))
              /\ inflight' = "getDoc"
              /\ UNCHANGED <<pc, call, outcome, settles>>
         ELSE Finish(w, Return(EmptyObject))

\* getLastDoc after its await, lines 221-226; c is getDocList's completion
getLastDoc_resume(w, c) ==
    IF c.c = "throw" THEN Finish(w, c)
    ELSE LET getDocLists == c.v IN
         IF Nullish(getDocLists) THEN Finish(w, Throw(TypeError))
         ELSE IF getDocLists.t = "array" /\ Len(getDocLists.v) > 0
         THEN /\ wire' = Append(w, getDoc_request(call.doctype,
                                                  Get(getDocLists.v[1], "name")))
              /\ inflight' = "getDoc"
              /\ UNCHANGED <<pc, call, outcome, settles>>
         ELSE Finish(w, Return(EmptyObject))

\* the transport promise settles with s: the method's handlers run, then its caller
Deliver(s) ==
    /\ pc = "pending"
    /\ LET w == Append(wire, [e |-> "response", s |-> s])
           c == Settle(inflight, s)
       IN  IF call.op = "getLastDoc" /\ inflight = "getDocList"
           THEN getLastDoc_resume(w, c)
           ELSE Finish(w, c)

\* a 2xx reply
RespondSuccess == \E body \in SuccessBodies : Deliver(Return(Response(200, "OK", body)))

\* a non-2xx reply: axios rejects with an error that carries the response
RespondError ==
    \E st \in Statuses, body \in ErrorBodies :
        Deliver(Throw(ErrorWithResponse(Response(st.status, st.statusText, body))))

\* no reply at all: axios rejects with an error without a response
NetworkError == Deliver(Throw(ErrorNoResponse))

Next ==
    \/ \E d \in Doctypes, n \in GetDocNames : getDoc(d, n)
    \/ \E d \in Doctypes, a \in ListArgs : getDocList(d, a)
    \/ \E d \in Doctypes, v \in DocValues : createDoc(d, v)
    \/ \E d \in Doctypes, n \in UpdateDocNames, v \in DocValues : updateDoc(d, n, v)
    \/ \E d \in Doctypes, n \in DeleteDocNames : deleteDoc(d, n)
    \/ \E d \in Doctypes, f \in CountFilters, c \in Flags, g \in Flags : getCount(d, f, c, g)
    \/ \E d \in Doctypes, a \in ListArgs : getLastDoc(d, a)
    \/ RespondSuccess
    \/ RespondError
    \/ NetworkError

Spec == Init /\ [][Next]_vars

---------------------------------------------------------------------------
(* Vocabulary of the properties *)

Primary == {"getDoc", "getDocList", "createDoc", "updateDoc", "deleteDoc", "getCount"}

Called  == pc # "idle"
Settled == pc = "settled"

\* how the transport settled the i-th request
Reply(i) == Responses[i].s

Succeeded(s)          == s.c = "return"
FailedWithResponse(s) == s.c = "throw" /\ "response" \in DOMAIN s.v.v
FailedNoResponse(s)   == s.c = "throw" /\ "response" \notin DOMAIN s.v.v

\* the response object of a reply that has one, and its body
ResponseOf(s) == IF s.c = "return" THEN s.v ELSE s.v.v.response
BodyOf(s)     == ResponseOf(s).v.data
IsObject(x)   == x.t = "object"

\* the body has a field k whose value is neither null nor undefined
Has(B, k) == k \in DOMAIN B.v /\ B.v[k].t \notin {"null", "undefined"}

DefaultMessage(op) ==
    CASE op = "getDoc"     -> "There was an error while fetching the document."
      [] op = "getDocList" -> "There was an error while fetching the documents."
      [] op = "createDoc"  -> "There was an error while creating the document."
      [] op = "updateDoc"  -> "There was an error while updating the document."
      [] op = "deleteDoc"  -> "There was an error while deleting the document."
      [] op = "getCount"   -> "There was an error while getting the count."

\* the JSON text of each list and filter value the callers of this model pass
ExpectedJSON(x) ==
    CASE x = Arr(<<>>) -> "[]"
      [] x = Arr(<<Str("name")>>) -> "[\"name\"]"
      [] x = Arr(<<Str("name"), Str("age")>>) -> "[\"name\",\"age\"]"
      [] x = Arr(<<Arr(<<Str("status"), Str("="), Str("Open")>>)>>)
            -> "[[\"status\",\"=\",\"Open\"]]"
      [] x = Arr(<<Arr(<<Str("owner"), Str("like"), Str("a%")>>)>>)
            -> "[[\"owner\",\"like\",\"a%\"]]"

\* a primary operation settled after a non-2xx reply with a JSON object body
PrimaryFailedWithBody ==
    /\ Settled /\ call.op \in Primary
    /\ FailedWithResponse(Reply(1)) /\ IsObject(BodyOf(Reply(1)))

---------------------------------------------------------------------------
(* C1 *)

\* C1: when a primary operation's transport fails with status S, status text
\* T and JSON object body B, the operation rejects with an object that has
\* every field of B (unchanged unless it is one of the four fields the
\* operation sets), httpStatus = S, httpStatusText = T, and an exception
\* field that is always present: B.exception if B has a non-null one,
\* otherwise B.exc_type, otherwise the empty string.
C1_ErrorEnvelope ==
    PrimaryFailedWithBody =>
        LET res == ResponseOf(Reply(1))
            B   == BodyOf(Reply(1))
            err == outcome.value
        IN  /\ outcome.state = "rejected"
            /\ IsObject(err)
            /\ DOMAIN B.v \subseteq DOMAIN err.v
            /\ \A k \in DOMAIN B.v \ {"httpStatus", "httpStatusText", "message", "exception"} :
                    err.v[k] = B.v[k]
            /\ {"httpStatus", "httpStatusText", "exception"} \subseteq DOMAIN err.v
            /\ err.v.httpStatus = res.v.status
            /\ err.v.httpStatusText = res.v.statusText
            /\ err.v.exception = IF Has(B, "exception") THEN B.v.exception
                                 ELSE IF Has(B, "exc_type") THEN B.v.exc_type
                                 ELSE Str("")

\* a 404 whose body has only exc_type (and a clashing httpStatus) was turned
\* into the envelope by getCount
C1_Witness ==
    /\ PrimaryFailedWithBody /\ call.op = "getCount"
    /\ BodyOf(Reply(1)) = Obj([exc_type |-> Str("DoesNotExistError"), httpStatus |-> Num(0)])
    /\ ResponseOf(Reply(1)).v.status = Num(404)
    /\ outcome.value.v.exception = Str("DoesNotExistError")
    /\ outcome.value.v.httpStatus = Num(404)

---------------------------------------------------------------------------
(* C3 *)

\* C3: a primary operation issues exactly one request whatever its arguments
\* and however the request ends (no retry), its promise settles exactly once,
\* and after any transport failure (a non-2xx reply or no reply at all) the
\* promise is rejected, never fulfilled.
C3_SingleExchange ==
    (Called /\ call.op \in Primary) =>
        /\ Len(Requests) = 1
        /\ Len(Responses) <= 1
        /\ settles = Len(Responses)
        /\ Settled <=> Len(Responses) = 1
        /\ (Settled /\ ~Succeeded(Reply(1))) => outcome.state = "rejected"
        /\ ~Settled => outcome.state = "pending"

\* a primary operation whose request got no reply at all has settled
C3_Witness ==
    /\ Settled /\ call.op = "updateDoc"
    /\ FailedNoResponse(Reply(1))
    /\ outcome.state = "rejected" /\ settles = 1 /\ Len(Requests) = 1

---------------------------------------------------------------------------
(* C4 *)

\* C4: the message of the rejected error is, for createDoc and updateDoc,
\* the body's message when the body has a non-null one and the operation's
\* default text otherwise; for getDoc, getDocList, deleteDoc and getCount it
\* is always the operation's default text, even when the body has a message.
C4_Message ==
    PrimaryFailedWithBody =>
        LET B == BodyOf(Reply(1)) IN
        /\ "message" \in DOMAIN outcome.value.v
        /\ outcome.value.v.message =
              IF call.op \in {"createDoc", "updateDoc"} /\ Has(B, "message")
              THEN B.v.message
              ELSE Str(DefaultMessage(call.op))

\* deleteDoc failed with a body carrying its own message and reported the default
C4_Witness ==
    /\ PrimaryFailedWithBody /\ call.op = "deleteDoc"
    /\ Has(BodyOf(Reply(1)), "message")
    /\ outcome.value.v.message = Str("There was an error while deleting the document.")

---------------------------------------------------------------------------
(* C2 *)

ListURL(doctype)      == "/api/resource/" \o doctype
DocURL(doctype, name) == "/api/resource/" \o doctype \o "/" \o name

\* the list a successful getDocList reply carries, if it carries one
ListOf(s) ==
    IF Succeeded(s) /\ IsObject(BodyOf(s)) /\ "data" \in DOMAIN BodyOf(s).v
       /\ BodyOf(s).v.data.t = "array"
    THEN BodyOf(s).v.data.v ELSE <<>>

\* C2: getLastDoc's sub-calls are strictly sequential and at most two: the
\* transport log alternates request, reply, request, reply, so the getDoc
\* request follows the getDocList reply; if the getDocList request fails,
\* no second request is issued and getLastDoc rejects with exactly
\* getDocList's error (message 'There was an error while fetching the
\* documents.'); if the list is non-empty and the getDoc request fails,
\* getLastDoc rejects with exactly getDoc's error (message 'There was an
\* error while fetching the document.').
C2_Sequential ==
    (Called /\ call.op = "getLastDoc") =>
        /\ Len(Requests) <= 2
        /\ \A i \in 1..Len(wire) : IsRequest(wire[i]) <=> (i % 2 = 1)
        /\ Requests[1].url = ListURL(call.doctype)
        /\ Len(Requests) = 2 => /\ Requests[2].url # ListURL(call.doctype)
                                /\ Succeeded(Reply(1))
        /\ (Len(Responses) >= 1 /\ ~Succeeded(Reply(1))) =>
              /\ Len(Requests) = 1
              /\ Settled /\ outcome.state = "rejected"
              /\ outcome.value = Settle("getDocList", Reply(1)).v
              /\ (FailedWithResponse(Reply(1)) /\ IsObject(BodyOf(Reply(1)))) =>
                    outcome.value.v.message =
                        Str("There was an error while fetching the documents.")
        /\ (Len(Responses) = 2 /\ ~Succeeded(Reply(2))) =>
              /\ Len(ListOf(Reply(1))) > 0
              /\ Settled /\ outcome.state = "rejected"
              /\ outcome.value = Settle("getDoc", Reply(2)).v
              /\ (FailedWithResponse(Reply(2)) /\ IsObject(BodyOf(Reply(2)))) =>
                    outcome.value.v.message =
                        Str("There was an error while fetching the document.")

\* getLastDoc was rejected by a failed list request, having issued nothing else
C2_Witness ==
    /\ Settled /\ call.op = "getLastDoc"
    /\ Len(Responses) = 1 /\ FailedWithResponse(Reply(1))
    /\ IsObject(BodyOf(Reply(1)))
    /\ Len(Requests) = 1
    /\ outcome.state = "rejected"
    /\ outcome.value.v.message = Str("There was an error while fetching the documents.")

---------------------------------------------------------------------------
(* C5 *)

\* the name getLastDoc reads from a list element: elements that are not
\* objects with a name (rows of an as_dict = false list) have none
NameOf(elem) ==
    IF IsObject(elem) /\ "name" \in DOMAIN elem.v THEN elem.v.name.v ELSE ""

\* C5: getLastDoc's result is determined by the list reply.  An empty list
\* makes it resolve to an empty object after exactly one request; a
\* non-empty list makes it request the document of the same doctype named
\* by the first element, and it resolves to the document that request
\* returns.  Without caller args the list request asks for order
\* 'creation desc', limit 1 and fields ["name"].
C5_LastDocResult ==
    (Called /\ call.op = "getLastDoc") =>
        /\ call.args = Undefined =>
              /\ Requests[1].params.v.order_by = Str("creation desc")
              /\ Requests[1].params.v.limit = Num(1)
              /\ Requests[1].params.v.fields = Str("[\"name\"]")
        /\ (Len(Responses) >= 1 /\ Succeeded(Reply(1))
                /\ IsObject(BodyOf(Reply(1)))
                /\ Get(BodyOf(Reply(1)), "data") = Arr(<<>>)) =>
              /\ Settled /\ outcome = [state |-> "fulfilled", value |-> EmptyObject]
              /\ Len(Requests) = 1
        /\ (Len(Responses) >= 1 /\ Len(ListOf(Reply(1))) > 0) =>
              /\ Len(Requests) = 2
              /\ Requests[2].method = "GET"
              /\ Requests[2].url = DocURL(call.doctype, NameOf(ListOf(Reply(1))[1]))
        /\ (Len(Responses) = 2 /\ Succeeded(Reply(2)) /\ IsObject(BodyOf(Reply(2)))) =>
              /\ Settled
              /\ outcome = [state |-> "fulfilled",
                            value |-> Get(BodyOf(Reply(2)), "data")]

\* getLastDoc got a two-element list and resolved to the document named first
C5_Witness ==
    /\ Settled /\ call.op = "getLastDoc" /\ call.doctype = "ToDo"
    /\ Len(ListOf(Reply(1))) = 2
    /\ ListOf(Reply(1))[1] = Obj([name |-> Str("T-001")])
    /\ ListOf(Reply(1))[2] # ListOf(Reply(1))[1]
    /\ Requests[2].url = "/api/resource/ToDo/T-001"
    /\ outcome = [state |-> "fulfilled",
                  value |-> Obj([name |-> Str("T-001"), subject |-> Str("X")])]

---------------------------------------------------------------------------
(* C6 *)

\* the order_by text of an orderBy argument, direction 'asc' unless given
ExpectedOrderBy(orderBy) ==
    orderBy.v.field.v \o " " \o
        (IF Has(orderBy, "order") THEN orderBy.v.order.v ELSE "asc")

\* C6: the query parameters of getDocList follow the mapping: fields,
\* filters and orFilters, when present, are sent as their JSON text in
\* fields, filters and or_filters; orderBy is sent as 'field direction' in
\* order_by, direction 'asc' when order is omitted; groupBy, limit and
\* limit_start are passed unmodified as group_by, limit and limit_start;
\* as_dict is the given asDict, true when it is not given; and with args
\* omitted the parameter set is empty.
C6_ListParams ==
    (Called /\ call.op = "getDocList") =>
        LET a == call.args
            p == Requests[1].params
        IN  /\ Len(Requests) = 1
            /\ Requests[1].method = "GET"
            /\ Requests[1].url = ListURL(call.doctype)
            /\ IsObject(p)
            /\ a = Undefined => DOMAIN p.v = {}
            /\ a # Undefined =>
                  /\ Has(a, "fields") => p.v.fields = Str(ExpectedJSON(a.v.fields))
                  /\ Has(a, "filters") => p.v.filters = Str(ExpectedJSON(a.v.filters))
                  /\ Has(a, "orFilters") => p.v.or_filters = Str(ExpectedJSON(a.v.orFilters))
                  /\ Has(a, "orderBy") => p.v.order_by = Str(ExpectedOrderBy(a.v.orderBy))
                  /\ p.v.group_by = Get(a, "groupBy")
                  /\ p.v.limit = Get(a, "limit")
                  /\ p.v.limit_start = Get(a, "limit_start")
                  /\ p.v.as_dict = IF Has(a, "asDict") THEN a.v.asDict ELSE Bool(TRUE)

\* getDocList was called with fields and an orderBy without order
C6_Witness ==
    /\ Called /\ call.op = "getDocList"
    /\ call.args = Obj([fields |-> Arr(<<Str("name"), Str("age")>>),
                        orderBy |-> Obj([field |-> Str("age")])])
    /\ Requests[1].params.v.fields = Str("[\"name\",\"age\"]")
    /\ Requests[1].params.v.order_by = Str("age asc")
    /\ Requests[1].params.v.as_dict = Bool(TRUE)

---------------------------------------------------------------------------
(* C7 *)

\* C7: getCount always sends doctype and filters: filters is the JSON text
\* of the filter list when one is given and an empty array when none is;
\* cache and debug are keys of the query exactly when the argument is true;
\* on success getCount resolves to the message field of the response body.
C7_CountParams ==
    (Called /\ call.op = "getCount") =>
        LET p == Requests[1].params IN
        /\ Requests[1].method = "GET"
        /\ Requests[1].url = "/api/method/frappe.client.get_count"
        /\ {"doctype", "filters"} \subseteq DOMAIN p.v
        /\ p.v.doctype = Str(call.doctype)
        /\ p.v.filters = IF call.filters = Undefined THEN Arr(<<>>)
                         ELSE Str(ExpectedJSON(call.filters))
        /\ "cache" \in DOMAIN p.v <=> call.cache = Bool(TRUE)
        /\ "cache" \in DOMAIN p.v => p.v.cache = Bool(TRUE)
        /\ "debug" \in DOMAIN p.v <=> call.debug = Bool(TRUE)
        /\ "debug" \in DOMAIN p.v => p.v.debug = Bool(TRUE)
        /\ (Settled /\ Succeeded(Reply(1)) /\ IsObject(BodyOf(Reply(1)))) =>
              outcome = [state |-> "fulfilled",
                         value |-> Get(BodyOf(Reply(1)), "message")]

\* getCount without filters, cache = false and debug = true returned the count
C7_Witness ==
    /\ Settled /\ call.op = "getCount"
    /\ call.filters = Undefined /\ call.cache = Bool(FALSE) /\ call.debug = Bool(TRUE)
    /\ DOMAIN Requests[1].params.v = {"doctype", "filters", "debug"}
    /\ Requests[1].params.v.filters = Arr(<<>>)
    /\ outcome = [state |-> "fulfilled", value |-> Num(3)]

---------------------------------------------------------------------------
(* C8 *)

\* a primary operation settled after a 2xx reply
PrimarySucceeded == Settled /\ call.op \in Primary /\ Succeeded(Reply(1))

\* C8 as stated: on success deleteDoc resolves to the raw response body and
\* each of getDoc, getDocList, createDoc, updateDoc and getCount resolves to
\* the data field of the response body.
C8_AllFiveUnwrapData ==
    PrimarySucceeded =>
        /\ call.op = "deleteDoc" =>
              outcome = [state |-> "fulfilled", value |-> BodyOf(Reply(1))]
        /\ (call.op # "deleteDoc" /\ IsObject(BodyOf(Reply(1)))) =>
              outcome = [state |-> "fulfilled",
                         value |-> Get(BodyOf(Reply(1)), "data")]

\* C8 amended: on success deleteDoc resolves to the raw response body; getDoc,
\* getDocList, createDoc and updateDoc resolve to the data field of the
\* response body; getCount resolves to its message field.
C8_UnwrapPerOperation ==
    PrimarySucceeded =>
        /\ call.op = "deleteDoc" =>
              outcome = [state |-> "fulfilled", value |-> BodyOf(Reply(1))]
        /\ (call.op \in {"getDoc", "getDocList", "createDoc", "updateDoc"}
                /\ IsObject(BodyOf(Reply(1)))) =>
              outcome = [state |-> "fulfilled",
                         value |-> Get(BodyOf(Reply(1)), "data")]
        /\ (call.op = "getCount" /\ IsObject(BodyOf(Reply(1)))) =>
              outcome = [state |-> "fulfilled",
                         value |-> Get(BodyOf(Reply(1)), "message")]

\* deleteDoc got {message: 'ok'} and resolved to exactly that body
C8_Witness ==
    /\ PrimarySucceeded /\ call.op = "deleteDoc"
    /\ BodyOf(Reply(1)) = Obj([message |-> Str("ok")])
    /\ outcome = [state |-> "fulfilled", value |-> Obj([message |-> Str("ok")])]

---------------------------------------------------------------------------
(* C9 *)

\* C9: with the document name null (updateDoc), omitted or null (deleteDoc)
\* or omitted (getDoc), the request is still issued and its URL is
\* /api/resource/{doctype}/ with an empty trailing name segment.
C9_EmptyNameSegment ==
    (Called /\ call.op \in {"getDoc", "updateDoc", "deleteDoc"}
        /\ call.docname \in {Undefined, Null}) =>
        /\ Len(Requests) >= 1
        /\ Requests[1].url = DocURL(call.doctype, "")

---------------------------------------------------------------------------
(* C10 *)

HasArg(a, k) == IsObject(a) /\ Has(a, k)

\* C10: whatever args the caller gives getLastDoc, the list request has
\* limit 1 and fields ["name"]; its order is the caller's orderBy when one is
\* given (direction 'asc' when that orderBy has no order) and 'creation
\* desc' otherwise; and the caller's filters, orFilters, groupBy,
\* limit_start and asDict reach it as getDocList sends them.
C10_ThreeStageArgs ==
    (Called /\ call.op = "getLastDoc") =>
        LET a == call.args
            p == Requests[1].params
        IN  /\ Requests[1].url = ListURL(call.doctype)
            /\ p.v.limit = Num(1)
            /\ p.v.fields = Str("[\"name\"]")
            /\ p.v.order_by = IF HasArg(a, "orderBy")
                              THEN Str(ExpectedOrderBy(a.v.orderBy))
                              ELSE Str("creation desc")
            /\ p.v.filters = IF HasArg(a, "filters")
                             THEN Str(ExpectedJSON(a.v.filters)) ELSE Undefined
            /\ p.v.or_filters = IF HasArg(a, "orFilters")
                                THEN Str(ExpectedJSON(a.v.orFilters)) ELSE Undefined
            /\ p.v.group_by = Get(a, "groupBy")
            /\ p.v.limit_start = Get(a, "limit_start")
            /\ p.v.as_dict = IF HasArg(a, "asDict") THEN a.v.asDict ELSE Bool(TRUE)

\* the caller set limit and fields, and no orderBy
C10_Witness ==
    /\ Called /\ call.op = "getLastDoc"
    /\ call.args = Obj([limit |-> Num(20),
                        fields |-> Arr(<<Str("name"), Str("age")>>)])
    /\ Requests[1].params.v.limit = Num(1)
    /\ Requests[1].params.v.fields = Str("[\"name\"]")
    /\ Requests[1].params.v.order_by = Str("creation desc")

=============================================================================
